---------------------------- MODULE Spec2Model ----------------------------
(***************************************************************************)
(* A model of the data-collection scripts of the repository:               *)
(*                                                                         *)
(*   src/bittensor.py                       main, fetch_daily_prices,      *)
(*                                          fetch_miners_snapshot          *)
(*   src/chatgpt/bittensor_get_emissions.py Taostats (_throttle, get,      *)
(*                                          fetch_snapshot_before)         *)
(*   src/chatgpt/ethereum_chatgpt.py        creds_to_entity                *)
(*                                                                         *)
(* Each script is a separate program; the variable script says which one   *)
(* a behaviour runs, and the variables of the other scripts keep their     *)
(* initial values.  The remote sources are the environment: every request  *)
(* is answered with any response of a small catalogue.                     *)
(*                                                                         *)
(* Python's None is the empty tuple and a present value v the 1-tuple <<v>>.*)
(* A Python list whose order no modelled code reads (the rows of           *)
(* all_records, list(miner_dict.values())) is the set of its elements: the *)
(* elements are pairwise distinct, so nothing but the order is dropped.    *)
(***************************************************************************)
EXTENDS Integers, Sequences, FiniteSets, TLC

VARIABLES
    script,        \* which program of the repository this behaviour runs
    source,        \* the metagraph source's data: the item pages of a window
    price_source,  \* the price source's data: the item pages of a window
    \* ---- src/bittensor.py
    pc,            \* position of main: "main", "fdp", "prices_returned",
                   \* "fms", "rows", "done"
    current_date,  \* main's window, counted 1..NumWindows
    page,          \* the running paginator's page counter
    price_map,     \* fetch_daily_prices: netuid -> price
    daily_prices,  \* main: what fetch_daily_prices returned for this window
    miner_dict,    \* fetch_miners_snapshot: uid -> item
    miners,        \* main: what fetch_miners_snapshot returned for this window
    all_records,   \* main: the rows collected so far
    \* ---- observation of the traffic of the running paginator call
    n_req,         \* requests issued by the running paginator call
    last_resp,     \* status and pagination signals of the latest response
    page_sizes,    \* item count of every 200 response of the running call
    calls,         \* per window: how fetch_miners_snapshot ended, what it returned
    \* ---- src/chatgpt/bittensor_get_emissions.py, class Taostats
    clock,         \* time.time(), in whole seconds
    rpm_limit,     \* self.rpm_limit
    self_last,     \* self._last
    cpc,           \* per caller, its position in Taostats.get
    now,           \* per caller, the local now of _throttle
    wake,          \* per caller, the instant its time.sleep ends
    issued,        \* the instants at which the latest two requests were sent
    get_out,       \* per caller, how its latest call of get ended
    rows_all,      \* fetch_snapshot_before: the rows appended so far
    fsb,           \* how fetch_snapshot_before ended, and the frame it returned
    \* ---- src/chatgpt/ethereum_chatgpt.py, creds_to_entity
    creds_hex,     \* the argument creds_hex, as its characters
    fallback_index,\* the argument fallback_index
    entity,        \* what the call returned or raised
    \* ---- load_validators_snapshot (src/chatgpt/ethereum_chatgpt.py) and the
    \* ---- parsing loop of main (src/parse_snapshot.py)
    validators,    \* the validators of the input file
    recs,          \* the records built so far (recs, parsed)
    loader,        \* "loop", "returned", or the exception that ended the loop
    \* ---- aggregate_over_weeks (src/chatgpt/ethereum_chatgpt.py)
    validators_df, \* the roster: validator_index, entity_id, sample_weight
    epc,           \* position: "week", "batch", "returned", "raised"
    ts_week,       \* the week of the outer loop, counted 1..NumWeeks
    start_i,       \* the inner loop's start_i
    hist,          \* the rows of the latest batch, in their order
    prev_balance,  \* validator_index -> last seen balance_gwei
    flow_log,      \* validator_index -> its first bal, the sum of its delta_pos,
                   \* and whether a delta of it was negative (lines 257-267)
    issuance_entity, \* this week's entity_id -> total positive delta
    stake_entity,  \* this week's entity_id -> total effectivebalance
    out_rows,      \* the entity-week rows emitted so far
    \* ---- aggregate_by_coldkey (src/chatgpt/bittensor_get_emissions.py)
    df_latest,     \* the frame given to aggregate_by_coldkey
    agg,           \* the frame it returned
    \* ---- main (src/eth_working/gini.py)
    grouped,       \* the validator counts of every week's entities
    gini_results   \* the rows appended so far

bvars == <<pc, current_date, price_map, daily_prices, miner_dict, miners,
           all_records, calls>>
tvars == <<clock, rpm_limit, self_last, cpc, now, wake, issued, get_out,
           rows_all, fsb>>
ovars == <<page, n_req, last_resp, page_sizes>>
cvars == <<creds_hex, fallback_index, entity>>
rvars == <<validators, recs, loader>>

evars == <<validators_df, epc, ts_week, start_i, hist, prev_balance,
           flow_log,
           issuance_entity, stake_entity, out_rows>>
gvars == <<df_latest, agg>>
mvars == <<grouped, gini_results>>

\* The variables of the programs modelled after creds_to_entity.
xvars == <<rvars, evars, gvars, mvars>>

vars == <<script, source, price_source, bvars, ovars, tvars, cvars, xvars>>

---------------------------------------------------------------------------
(* Bounds of the model *)

NumWindows == 2      \* windows main iterates over (START_DATE..END_DATE, step 7 days)
MaxRequests == 4     \* requests explored per paginator call
MaxTotalPages == 2   \* largest total_pages count a response reports
StartClock == 60     \* time.time() when the script starts
MaxElapsed == 6      \* seconds of the run that are explored

\* The callers of one Taostats object, and the rpm_limit it is built with.
Callers == {1, 2}
RpmLimits == {0, 20, 30}

---------------------------------------------------------------------------
(* Values *)

None == << >>
Some(v) == <<v>>
IsNone(x) == x = << >>
Val(x) == x[1]

\* One element of a response's 'data' array of /metagraph/history/v1, with
\* the coldkey c that owns the hotkey.
OwnedItem(u, b, t, c) ==
    [uid |-> u, hotkey |-> u, block_number |-> b, timestamp |-> t, coldkey |-> c]

\* An element whose coldkey is named like its hotkey.
Item(u, b, t) == OwnedItem(u, b, t, u)

\* One element of a response's 'data' array of /dtao/pool/history/v1.
PriceItem(n, p) == [netuid |-> n, price |-> p]

\* The data a metagraph source may hold for a window, as its pages; the pages
\* after the last one are empty.
DataSets ==
    { << >>,
      << << Item(1, Some(100), Some(1)), Item(2, Some(100), Some(1)) >>,
         << Item(3, Some(100), Some(1)), Item(4, Some(100), Some(1)) >> >>,
      << << Item(1, Some(100), Some(1)) >>, << Item(2, Some(100), Some(1)) >>,
         << Item(1, Some(105), Some(2)) >> >>,
      << << Item(1, Some(105), Some(2)), Item(1, Some(100), Some(1)) >> >>,
      << << Item(1, Some(100), Some(1)), Item(2, Some(100), Some(1)) >>,
         << Item(1, Some(100), Some(2)) >> >>,
      << << Item(2, None, Some(2)) >>, << Item(2, Some(100), Some(1)) >> >>,
      << << Item(2, None, Some(2)), Item(2, Some(100), Some(1)),
            Item(3, Some(100), Some(1)) >> >>,
      << << OwnedItem(1, Some(100), Some(1), 1), OwnedItem(1, Some(100), Some(1), 2) >> >> }

\* The data a price source may hold for a window.
PriceSets ==
    { << >>,
      << << PriceItem(64, Some(2)) >> >>,
      << << PriceItem(1, Some(3)) >>, << PriceItem(64, Some(3)) >> >>,
      << << PriceItem(64, None) >> >> }

PageOf(data, p) == IF p \in 1..Len(data) THEN data[p] ELSE << >>

\* The 'pagination' object of a response: next_page is missing, null or a page
\* number; total_pages is missing (None) or a count.  The signals are the
\* source's to choose: they need not agree with the data or with each other.
NextPageChoices == {"absent", "null", "set"}
TotalPagesChoices == {None} \cup {Some(n) : n \in 1..MaxTotalPages}

\* What a request for page p may be answered with: a connection error
\* (requests raises), an error status, or 200 with page p of the data.
Failure(k, s) ==
    [kind |-> k, status |-> s, items |-> << >>, next_page |-> "absent", total_pages |-> None]

Responses(data, p) ==
    { Failure("exception", 0), Failure("http", 429), Failure("http", 404),
      Failure("http", 500) }
    \cup
    { [kind |-> "http", status |-> 200, items |-> PageOf(data, p),
       next_page |-> np, total_pages |-> tp] :
          np \in NextPageChoices, tp \in TotalPagesChoices }

Signals(r) ==
    [kind |-> r.kind, status |-> r.status, n_items |-> Len(r.items),
     next_page |-> r.next_page, total_pages |-> r.total_pages]

NoResp == [kind |-> "none", status |-> 0, n_items |-> 0,
           next_page |-> "absent", total_pages |-> None]

EmptyDict == [u \in {} |-> 0]
Values(d) == { d[k] : k \in DOMAIN d }

---------------------------------------------------------------------------
(* src/bittensor.py *)

\* The test of the empty page left out.
NoItemsNeverTrue(items) == FALSE

\* `if not items` (lines 53 and 109-110): the page is empty.
NoItems(items) == items = << >>

\* A missing next_page taken for "there is more".
NextPageUnlessNull(r) == r.next_page # "null"

\* Truthiness of data.get('pagination', {}).get('next_page').
NextPageTruthy(r) == r.next_page = "set"

\* Lines 55-62: the loop over the items of a price page.  float(None) raises
\* TypeError, which leaves the loop with the entries written so far.
RECURSIVE PriceFold(_, _)
PriceFold(pm, items) ==
    IF items = << >> THEN [map |-> pm, raised |-> FALSE]
    ELSE LET item == Head(items) IN
         IF IsNone(item.price) THEN [map |-> pm, raised |-> TRUE]
         ELSE PriceFold((item.netuid :> Val(item.price)) @@ pm, Tail(items))

\* Lines 112-119: the loop over the items of a metagraph page.  Comparing a
\* missing block_number (None) raises TypeError.
RECURSIVE MinerFold(_, _)
MinerFold(md, items) ==
    IF items = << >> THEN [map |-> md, raised |-> FALSE]
    ELSE LET item == Head(items)
             uid == item.uid
         IN  IF uid \in DOMAIN md
             THEN IF IsNone(item.block_number) \/ IsNone(md[uid].block_number)
                  THEN [map |-> md, raised |-> TRUE]
                  ELSE IF Val(item.block_number) > Val(md[uid].block_number)
                       THEN MinerFold((uid :> item) @@ md, Tail(items))
                       ELSE MinerFold(md, Tail(items))
             ELSE MinerFold((uid :> item) @@ md, Tail(items))

\* The request of one loop iteration and what is observed of its answer.
Observe(r) ==
    /\ n_req' = n_req + 1
    /\ last_resp' = Signals(r)
    /\ page_sizes' = IF r.kind = "http" /\ r.status = 200
                     THEN Append(page_sizes, Len(r.items)) ELSE page_sizes

\* Lines 147-154 of main: the loop test and the call of fetch_daily_prices,
\* whose locals are initialised (lines 30-33).
main_loop ==
    /\ script = "bittensor"
    /\ pc = "main"
    /\ IF current_date <= NumWindows
       THEN /\ pc' = "fdp"
            /\ price_map' = EmptyDict
            /\ page' = 1
            /\ n_req' = 0
            /\ page_sizes' = << >>
            /\ last_resp' = NoResp
       ELSE /\ pc' = "done"
            /\ UNCHANGED <<price_map, page, n_req, page_sizes, last_resp>>
    /\ UNCHANGED <<xvars, tvars, cvars, script, source, price_source, current_date, daily_prices, miner_dict, miners,
                   all_records, calls>>

\* fetch_daily_prices returns pm to main (line 75).
PricesReturn(pm) ==
    /\ price_map' = pm
    /\ daily_prices' = pm
    /\ pc' = "prices_returned"
    /\ UNCHANGED page

\* One iteration of the loop of fetch_daily_prices (lines 36-73).
fetch_daily_prices ==
    /\ script = "bittensor"
    /\ pc = "fdp"
    /\ n_req < MaxRequests
    /\ \E r \in Responses(price_source, page) :
         /\ Observe(r)
         /\ IF r.kind = "exception" \/ r.status # 200 \/ NoItems(r.items)
            THEN PricesReturn(price_map)
            ELSE LET f == PriceFold(price_map, r.items) IN
                 IF f.raised \/ ~NextPageTruthy(r)
                 THEN PricesReturn(f.map)
                 ELSE /\ price_map' = f.map
                      /\ page' = page + 1
                      /\ UNCHANGED <<pc, daily_prices>>
    /\ UNCHANGED <<xvars, tvars, cvars, script, source, price_source, current_date, miner_dict, miners, all_records, calls>>

\* Lines 156-162 of main: the only subnet's call of fetch_miners_snapshot,
\* whose locals are initialised (lines 81-85).
main_call_miners ==
    /\ script = "bittensor"
    /\ pc = "prices_returned"
    /\ pc' = "fms"
    /\ miner_dict' = EmptyDict
    /\ page' = 1
    /\ n_req' = 0
    /\ page_sizes' = << >>
    /\ last_resp' = NoResp
    /\ UNCHANGED <<xvars, tvars, cvars, script, source, price_source, current_date, price_map, daily_prices, miners,
                   all_records, calls>>

\* fetch_miners_snapshot returns list(md.values()) to main (line 133).
MinersReturn(md, how) ==
    /\ miner_dict' = md
    /\ miners' = Values(md)
    /\ calls' = [calls EXCEPT ![current_date] = [outcome |-> how, miners |-> Values(md)]]
    /\ pc' = "rows"
    /\ UNCHANGED page

\* One iteration of the loop of fetch_miners_snapshot (lines 87-131).
fetch_miners_snapshot ==
    /\ script = "bittensor"
    /\ pc = "fms"
    /\ n_req < MaxRequests
    /\ \E r \in Responses(source, page) :
         /\ Observe(r)
         /\ IF r.kind = "exception" THEN MinersReturn(miner_dict, "aborted")
            ELSE IF r.status = 429
                 THEN UNCHANGED <<pc, page, miner_dict, miners, calls>>
            ELSE IF r.status # 200 THEN MinersReturn(miner_dict, "aborted")
            ELSE IF NoItems(r.items) THEN MinersReturn(miner_dict, "complete")
            ELSE LET f == MinerFold(miner_dict, r.items) IN
                 IF f.raised THEN MinersReturn(f.map, "data_error")
                 ELSE IF NextPageTruthy(r)
                      THEN /\ miner_dict' = f.map
                           /\ page' = page + 1
                           /\ UNCHANGED <<pc, miners, calls>>
                      ELSE MinersReturn(f.map, "complete")
    /\ UNCHANGED <<xvars, tvars, cvars, script, source, price_source, current_date, price_map, daily_prices, all_records>>

\* alpha_price = daily_prices.get(netuid, 1.0) (line 159).
AlphaPrice(dp, netuid) == IF netuid \in DOMAIN dp THEN dp[netuid] ELSE 1

\* Lines 164-196: the row main builds from one miner of the snapshot.
Record(m, date, netuid, alpha_price) ==
    [date |-> date, block |-> m.block_number, netuid |-> netuid, uid |-> m.uid,
     alpha_price |-> alpha_price]

\* Lines 164-202 of main: the rows of this window are appended and the date
\* moves on by one window.  The traffic observed of the finished call is
\* forgotten.
main_rows ==
    /\ script = "bittensor"
    /\ pc = "rows"
    /\ all_records' = all_records \cup
           { Record(m, current_date, 64, AlphaPrice(daily_prices, 64)) : m \in miners }
    /\ current_date' = current_date + 1
    /\ pc' = "main"
    /\ n_req' = 0
    /\ page_sizes' = << >>
    /\ last_resp' = NoResp
    /\ UNCHANGED <<xvars, tvars, cvars, script, source, price_source, page, price_map, daily_prices,
                   miner_dict, miners, calls>>

---------------------------------------------------------------------------
(* src/chatgpt/bittensor_get_emissions.py: class Taostats *)

Max(a, b) == IF a >= b THEN a ELSE b

\* Line 51: gap = 60.0 / max(1, self.rpm_limit).  The limits of RpmLimits
\* divide 60, so the quotient is a whole number of seconds.
Gap(rpm) == 60 \div Max(1, rpm)

\* Line 53: the test that sends the caller to sleep.
MustSleep(t, last, gap) == t - last < gap

\* The sleep cut short by a second.
WakeTimeShort(start, t, last, gap) == start + (gap - (t - last)) - 1

\* Line 54: time.sleep(gap - (now - self._last)) started at instant start
\* ends at start plus that duration, or later.
WakeTime(start, t, last, gap) == start + (gap - (t - last))

\* Lines 61-63: what get gives its caller for a response.  Every status from
\* 400 on raises the same RuntimeError, whose text starts with the status; an
\* exception of requests propagates as it is.
GetOutcome(r) ==
    IF r.kind = "exception" THEN [exc |-> "ConnectionError", status |-> 0]
    ELSE IF r.status >= 400 THEN [exc |-> "RuntimeError", status |-> r.status]
    ELSE [exc |-> "none", status |-> r.status]

NoOutcome == [exc |-> "none", status |-> 0]

\* Lines 58 and 51-53: a caller enters get, which enters _throttle.  In the
\* scripts of the repository the calls follow one another; only under
\* "threads" may a caller enter while another is inside get.
get_call(c) ==
    /\ script \in {"taostats", "get", "threads"}
    /\ cpc[c] = "idle"
    /\ script = "taostats" => n_req < MaxRequests
    /\ script = "get" => \A d \in Callers : cpc[d] \in {"idle", "off"}
    /\ now' = [now EXCEPT ![c] = clock]
    /\ get_out' = [get_out EXCEPT ![c] = NoOutcome]
    /\ cpc' = [cpc EXCEPT ![c] =
                 IF MustSleep(clock, self_last, Gap(rpm_limit)) THEN "throttle"
                 ELSE "stamp"]
    /\ UNCHANGED <<xvars, cvars, script, source, price_source, bvars, ovars, clock, rpm_limit,
                   self_last, wake, issued, rows_all, fsb>>

\* Line 54: the sleep starts; self._last is read again.
throttle_sleep(c) ==
    /\ cpc[c] = "throttle"
    /\ wake' = [wake EXCEPT ![c] = WakeTime(clock, now[c], self_last, Gap(rpm_limit))]
    /\ cpc' = [cpc EXCEPT ![c] = "sleeping"]
    /\ UNCHANGED <<xvars, cvars, script, source, price_source, bvars, ovars, clock, rpm_limit,
                   self_last, now, issued, get_out, rows_all, fsb>>

\* The instants of the latest two requests, after one more is sent at t.
LatestTwo(sent, t) == IF Len(sent) < 2 THEN Append(sent, t) ELSE <<sent[2], t>>

\* Lines 55 and 59-60: once the sleep, if any, is over, _throttle stamps
\* self._last and get sends the request.  Nothing blocks between the two
\* lines, so at the clock's resolution they happen at the same instant.
get_send(c) ==
    /\ \/ cpc[c] = "stamp"
       \/ cpc[c] = "sleeping" /\ clock >= wake[c]
    /\ self_last' = clock
    /\ issued' = LatestTwo(issued, clock)
    /\ cpc' = [cpc EXCEPT ![c] = "waiting"]
    /\ now' = [now EXCEPT ![c] = 0]
    /\ wake' = [wake EXCEPT ![c] = 0]
    /\ UNCHANGED <<xvars, cvars, script, source, price_source, bvars, ovars, clock, rpm_limit,
                   get_out, rows_all, fsb>>

\* What a direct call of get may be answered with.
StatusResponses ==
    { Failure("exception", 0), Failure("http", 429), Failure("http", 404),
      Failure("http", 500),
      [kind |-> "http", status |-> 200, items |-> << >>, next_page |-> "absent",
       total_pages |-> None] }

\* Lines 60-63 for a caller that called get directly: the response arrives
\* and get returns or raises.
get_return(c) ==
    /\ script \in {"get", "threads"}
    /\ cpc[c] = "waiting"
    /\ \E r \in StatusResponses :
         get_out' = [get_out EXCEPT ![c] = GetOutcome(r)]
    /\ cpc' = [cpc EXCEPT ![c] = "idle"]
    /\ UNCHANGED <<xvars, cvars, script, source, price_source, bvars, ovars, clock, rpm_limit,
                   self_last, now, wake, issued, rows_all, fsb>>

\* Time passes while a caller sleeps or waits for a response; the other
\* steps take no time at the clock's resolution.
Tick ==
    /\ script \in {"taostats", "get", "threads"}
    /\ \E c \in Callers : cpc[c] \in {"sleeping", "waiting"}
    /\ clock < StartClock + MaxElapsed
    /\ clock' = clock + 1
    /\ UNCHANGED <<xvars, cvars, script, source, price_source, bvars, ovars, rpm_limit,
                   self_last, cpc, now, wake, issued, get_out, rows_all, fsb>>

\* Lines 144-153: the row kept of one element of the payload's data.
Row(r) == [hotkey |-> r.hotkey, block_number |-> r.block_number,
           timestamp |-> r.timestamp, coldkey |-> r.coldkey]

RECURSIVE Rows(_)
Rows(items) ==
    IF items = << >> THEN << >> ELSE <<Row(Head(items))>> \o Rows(Tail(items))

\* Lines 170-177: the order of sort_values(["hotkey", "block_number",
\* "ts_parsed"], ascending=[True, False, False]) between two rows of one
\* hotkey: larger block_number first, then larger timestamp; a missing value
\* (NaN, NaT) goes last.  -1: a sorts before b, 1: after, 0: tied.
KeyOrder(x, y) ==
    IF IsNone(x) /\ IsNone(y) THEN 0
    ELSE IF IsNone(y) THEN -1
    ELSE IF IsNone(x) THEN 1
    ELSE IF Val(x) > Val(y) THEN -1
    ELSE IF Val(x) < Val(y) THEN 1
    ELSE 0

RowOrder(a, b) ==
    IF KeyOrder(a.block_number, b.block_number) # 0
    THEN KeyOrder(a.block_number, b.block_number)
    ELSE KeyOrder(a.timestamp, b.timestamp)

\* Lines 174-178: the row drop_duplicates(keep="first") keeps for hotkey h
\* after the sort, which is stable: of the rows tied for first, the earliest
\* of rows.
Newest(rows, h) ==
    LET I == { i \in 1..Len(rows) : rows[i].hotkey = h }
        best == CHOOSE i \in I :
                  \A j \in I : \/ RowOrder(rows[i], rows[j]) < 0
                               \/ RowOrder(rows[i], rows[j]) = 0 /\ i <= j
    IN  rows[best]

RECURSIVE SortedSeq(_)
SortedSeq(S) ==
    IF S = {} THEN << >>
    ELSE LET m == CHOOSE x \in S : \A y \in S : x <= y
         IN  <<m>> \o SortedSeq(S \ {m})

\* The frame without the row of the last hotkey.
DfLatestShort(rows) ==
    LET hs == SortedSeq({ rows[i].hotkey : i \in 1..Len(rows) })
    IN  [k \in 1..(Len(hs) - 1) |-> Newest(rows, hs[k])]

\* Lines 165-180: the frame fetch_snapshot_before returns for rows, one row
\* per hotkey in the order of the hotkeys.
DfLatest(rows) ==
    LET hs == SortedSeq({ rows[i].hotkey : i \in 1..Len(rows) })
    IN  [k \in 1..Len(hs) |-> Newest(rows, hs[k])]

\* Lines 100-102: `payload.get("data") or []` is empty.
NoDataRows(items) == items = << >>

\* Lines 155-163: whether the loop goes on to the next page.
FsbContinues(r, p) ==
    IF IsNone(r.total_pages) THEN TRUE ELSE ~(p >= Val(r.total_pages))

\* fetch_snapshot_before returns the deduplicated frame (lines 165-180).
FsbReturn(rows) ==
    /\ rows_all' = rows
    /\ fsb' = [kind |-> "returned", frame |-> DfLatest(rows)]
    /\ cpc' = [cpc EXCEPT ![1] = "done"]
    /\ UNCHANGED page

\* Lines 90-163: the response to the request of get arrives; get returns the
\* payload or raises (lines 60-63), and the loop of fetch_snapshot_before
\* goes on from there.  An exception raised by get is not caught.
fetch_snapshot_before ==
    /\ script = "taostats"
    /\ cpc[1] = "waiting"
    /\ \E r \in Responses(source, page) :
         /\ Observe(r)
         /\ get_out' = [get_out EXCEPT ![1] = GetOutcome(r)]
         /\ IF GetOutcome(r).exc # "none"
            THEN /\ fsb' = [kind |-> "raised", frame |-> << >>]
                 /\ cpc' = [cpc EXCEPT ![1] = "done"]
                 /\ UNCHANGED <<rows_all, page>>
            ELSE IF NoDataRows(r.items) THEN FsbReturn(rows_all)
            ELSE IF FsbContinues(r, page)
                 THEN /\ rows_all' = rows_all \o Rows(r.items)
                      /\ page' = page + 1
                      /\ cpc' = [cpc EXCEPT ![1] = "idle"]
                      /\ UNCHANGED fsb
                 ELSE FsbReturn(rows_all \o Rows(r.items))
    /\ UNCHANGED <<xvars, cvars, script, source, price_source, bvars, clock, rpm_limit,
                   self_last, now, wake, issued>>

---------------------------------------------------------------------------
(* src/chatgpt/ethereum_chatgpt.py: creds_to_entity *)

\* A string is the sequence of its characters.
LowerHex == <<"0", "1", "2", "3", "4", "5", "6", "7", "8", "9",
              "a", "b", "c", "d", "e", "f">>
UpperHex == <<"0", "1", "2", "3", "4", "5", "6", "7", "8", "9",
              "A", "B", "C", "D", "E", "F">>

IsHexChar(ch) == \E v \in 1..16 : LowerHex[v] = ch \/ UpperHex[v] = ch

\* The value 0..15 of a hexadecimal digit of either case.
HexVal(ch) == (CHOOSE v \in 1..16 : LowerHex[v] = ch \/ UpperHex[v] = ch) - 1

\* bytes.fromhex(s): raises ValueError unless s is an even number of
\* hexadecimal digits (white space, which fromhex skips, is not modelled).
FromHexRaises(s) == Len(s) % 2 # 0 \/ \E i \in 1..Len(s) : ~IsHexChar(s[i])
FromHex(s) == [k \in 1..(Len(s) \div 2) |-> 16 * HexVal(s[2 * k - 1]) + HexVal(s[2 * k])]

\* bytes.hex(): two lowercase digits per byte.
ToHex(raw) ==
    [k \in 1..(2 * Len(raw)) |->
        IF k % 2 = 1 THEN LowerHex[(raw[(k + 1) \div 2] \div 16) + 1]
        ELSE LowerHex[(raw[k \div 2] % 16) + 1]]

\* str.lower() on the characters that occur.
LowerChar(ch) ==
    IF \E v \in 11..16 : UpperHex[v] = ch
    THEN LowerHex[CHOOSE v \in 11..16 : UpperHex[v] = ch]
    ELSE IF ch = "X" THEN "x" ELSE ch
Lower(s) == [k \in 1..Len(s) |-> LowerChar(s[k])]

\* str(n) for n >= 0.
RECURSIVE Decimal(_)
Decimal(n) ==
    IF n < 10 THEN <<LowerHex[n + 1]>>
    ELSE Decimal(n \div 10) \o <<LowerHex[(n % 10) + 1]>>

\* s[k:] of a string or of bytes, k counted from 0.
From(s, k) == SubSeq(s, k + 1, Len(s))

Returned(key) == [exc |-> "none", key |-> key]
Raised(e) == [exc |-> e, key |-> << >>]

\* The address cut as raw[11:], one byte too long.
CredsToEntityWideSlice(hex, index) ==
    IF FromHexRaises(From(hex, 2)) THEN Raised("ValueError")
    ELSE LET raw == FromHex(From(hex, 2)) IN
         IF Len(raw) = 0 THEN Raised("IndexError")
         ELSE LET prefix == raw[1] IN
              IF prefix \in {1, 2} /\ Len(raw) = 32
              THEN Returned(Lower(<<"0", "x">> \o ToHex(From(raw, 11))))
              ELSE Returned(<<"l", "e", "g", "a", "c", "y", "_">> \o Decimal(index))

\* Lines 52-57.
CredsToEntity(hex, index) ==
    IF FromHexRaises(From(hex, 2)) THEN Raised("ValueError")
    ELSE LET raw == FromHex(From(hex, 2)) IN
         IF Len(raw) = 0 THEN Raised("IndexError")
         ELSE LET prefix == raw[1] IN
              IF prefix \in {1, 2} /\ Len(raw) = 32
              THEN Returned(Lower(<<"0", "x">> \o ToHex(From(raw, 12))))
              ELSE Returned(<<"l", "e", "g", "a", "c", "y", "_">> \o Decimal(index))

NotCalled == [exc |-> "not called", key |-> << >>]

\* One call of creds_to_entity, as load_validators_snapshot makes it for a
\* validator (line 86).
creds_to_entity ==
    /\ script = "creds"
    /\ entity = NotCalled
    /\ entity' = CredsToEntity(creds_hex, fallback_index)
    /\ UNCHANGED <<xvars, script, source, price_source, bvars, ovars, tvars, creds_hex,
                   fallback_index>>

\* The credentials tried: the type byte, eleven bytes of padding and twenty
\* address bytes, cut or extended to n bytes, behind a two-character prefix;
\* and strings that are no hexadecimal at all.
RECURSIVE Repeat(_, _)
Repeat(s, n) == IF n = 0 THEN << >> ELSE s \o Repeat(s, n - 1)

TypeBytes == { <<"0", "0">>, <<"0", "1">>, <<"0", "2">>, <<"0", "3">>, <<"1", "1">> }
AddressBytes == { <<"a", "a">>, <<"A", "A">>, <<"0", "0">>, <<"9", "F">> }
ByteLengths == {0, 1, 31, 32, 33}
FallbackIndexes == {0, 7, 12}

Credential(t, a, n) ==
    <<"0", "x">> \o SubSeq(t \o Repeat(<<"0", "0">>, 11) \o Repeat(a, 21), 1, 2 * n)

CredInputs ==
    { Credential(t, a, n) : t \in TypeBytes, a \in AddressBytes, n \in ByteLengths }
    \cup { << >>, <<"0", "x", "0">>, <<"0", "x", "0", "g">> }

---------------------------------------------------------------------------
(* The programs *)

NoCall == [outcome |-> "none", miners |-> {}]

BittensorAtRest ==
    /\ pc = "main"
    /\ current_date = 1
    /\ price_map = EmptyDict
    /\ daily_prices = EmptyDict
    /\ miner_dict = EmptyDict
    /\ miners = {}
    /\ all_records = {}
    /\ calls = [w \in 1..NumWindows |-> NoCall]

NoTraffic ==
    /\ page = 1
    /\ n_req = 0
    /\ last_resp = NoResp
    /\ page_sizes = << >>

\* Taostats.__init__ (lines 42-48) with the callers in A about to call.
TaostatsBuilt(A) ==
    /\ clock = StartClock
    /\ rpm_limit \in RpmLimits
    /\ self_last = 0
    /\ cpc = [c \in Callers |-> IF c \in A THEN "idle" ELSE "off"]
    /\ now = [c \in Callers |-> 0]
    /\ wake = [c \in Callers |-> 0]
    /\ issued = << >>
    /\ get_out = [c \in Callers |-> NoOutcome]
    /\ rows_all = << >>
    /\ fsb = [kind |-> "none", frame |-> << >>]

TaostatsAtRest ==
    /\ TaostatsBuilt({})
    /\ rpm_limit = 0

CredsAtRest ==
    /\ creds_hex = << >>
    /\ fallback_index = 0
    /\ entity = NotCalled

\* aggregate_by_coldkey was not called yet.
NotAggregated == [done |-> FALSE, rows |-> {}]

WeeksAtRest ==
    /\ validators_df = << >>
    /\ epc = "week"
    /\ ts_week = 1
    /\ start_i = 0
    /\ hist = EmptyDict
    /\ prev_balance = EmptyDict
    /\ flow_log = EmptyDict
    /\ issuance_entity = EmptyDict
    /\ stake_entity = EmptyDict
    /\ out_rows = {}

ColdkeyAtRest ==
    /\ df_latest = << >>
    /\ agg = NotAggregated

\* main of src/eth_working/gini.py has no week to go through.
MetricsAtRest ==
    /\ grouped = << >>
    /\ gini_results = << >>

AggregatorsAtRest == WeeksAtRest /\ ColdkeyAtRest /\ MetricsAtRest

RosterAtRest ==
    /\ validators = << >>
    /\ recs = << >>
    /\ loader = "loop"
    /\ AggregatorsAtRest

\* src/bittensor.py run as a script.
InitBittensor ==
    /\ script = "bittensor"
    /\ source \in DataSets
    /\ price_source \in PriceSets
    /\ BittensorAtRest /\ NoTraffic /\ TaostatsAtRest /\ RosterAtRest /\ CredsAtRest

\* One call of Taostats.fetch_snapshot_before, as the script of
\* src/chatgpt/bittensor_get_emissions.py makes it (lines 221-236).
InitTaostats ==
    /\ script = "taostats"
    /\ source \in DataSets
    /\ price_source = << >>
    /\ BittensorAtRest /\ NoTraffic /\ TaostatsBuilt({1}) /\ RosterAtRest /\ CredsAtRest

\* Calls of Taostats.get on one object, one after the other.
InitGet ==
    /\ script = "get"
    /\ source = << >>
    /\ price_source = << >>
    /\ BittensorAtRest /\ NoTraffic /\ TaostatsBuilt(Callers) /\ RosterAtRest /\ CredsAtRest

\* Two threads sharing one Taostats object, each calling get again and again.
InitConcurrent ==
    /\ script = "threads"
    /\ source = << >>
    /\ price_source = << >>
    /\ BittensorAtRest /\ NoTraffic /\ TaostatsBuilt(Callers) /\ RosterAtRest /\ CredsAtRest

\* One call of creds_to_entity.
InitCreds ==
    /\ script = "creds"
    /\ source = << >>
    /\ price_source = << >>
    /\ BittensorAtRest /\ NoTraffic /\ TaostatsAtRest /\ RosterAtRest
    /\ creds_hex \in CredInputs
    /\ fallback_index \in FallbackIndexes
    /\ entity = NotCalled

Init == InitBittensor \/ InitTaostats \/ InitGet \/ InitCreds

NextGet ==
    \/ \E c \in Callers : get_call(c)
    \/ \E c \in Callers : throttle_sleep(c)
    \/ \E c \in Callers : get_send(c)
    \/ \E c \in Callers : get_return(c)
    \/ Tick

Next ==
    \/ main_loop
    \/ fetch_daily_prices
    \/ main_call_miners
    \/ fetch_miners_snapshot
    \/ main_rows
    \/ NextGet
    \/ fetch_snapshot_before
    \/ creds_to_entity

Spec == Init /\ [][Next]_vars

\* The same code with two callers whose steps interleave.
SpecConcurrent == InitConcurrent /\ [][NextGet]_vars

---------------------------------------------------------------------------
(* load_validators_snapshot and the parsing loop of src/parse_snapshot.py *)

MaxValidators == 3   \* validators in the input file

\* The withdrawal_credentials a validator of the file may carry: none, or 32
\* bytes of type 00, 01 or 02.
RosterCreds ==
    { None,
      Some(Credential(<<"0", "0">>, <<"a", "a">>, 32)),
      Some(Credential(<<"0", "1">>, <<"a", "a">>, 32)),
      Some(Credential(<<"0", "2">>, <<"a", "a">>, 32)) }

\* The input files: the validators carry the indexes 0, 1, 2, ...
Rosters ==
    UNION { { [i \in 1..n |-> [index |-> i - 1, withdrawal_credentials |-> c[i]]] :
                c \in [1..n -> RosterCreds] } : n \in 0..MaxValidators }

\* One iteration of the loop of load_validators_snapshot (lines 84-92), or
\* its return (line 93).  v["withdrawal_credentials"] raises KeyError when
\* the validator has none, and what creds_to_entity raises is not caught.
load_validators_snapshot ==
    /\ script = "load"
    /\ loader = "loop"
    /\ IF Len(recs) = Len(validators)
       THEN loader' = "returned" /\ UNCHANGED recs
       ELSE LET v == validators[Len(recs) + 1]
                idx == v.index
            IN  IF IsNone(v.withdrawal_credentials)
                THEN loader' = "KeyError" /\ UNCHANGED recs
                ELSE LET e == CredsToEntity(Val(v.withdrawal_credentials), idx) IN
                     IF e.exc # "none"
                     THEN loader' = e.exc /\ UNCHANGED recs
                     ELSE /\ recs' = Append(recs, [validator_index |-> idx,
                                                   entity_id |-> e.key])
                          /\ UNCHANGED loader
    /\ UNCHANGED <<script, source, price_source, bvars, ovars, tvars, cvars, mvars, evars, gvars,
                   validators>>

Unknown == <<"u", "n", "k", "n", "o", "w", "n">>

\* One iteration of the parsing loop of main in src/parse_snapshot.py (lines
\* 43-53), or its end (line 55): the entity of a validator is its
\* withdrawal_credentials as they are, "unknown" when it has none.
parse_snapshot ==
    /\ script = "parse"
    /\ loader = "loop"
    /\ IF Len(recs) = Len(validators)
       THEN loader' = "returned" /\ UNCHANGED recs
       ELSE LET val_obj == validators[Len(recs) + 1] IN
            /\ recs' = Append(recs,
                  [entity_id |-> IF IsNone(val_obj.withdrawal_credentials) THEN Unknown
                                 ELSE Val(val_obj.withdrawal_credentials)])
            /\ UNCHANGED loader
    /\ UNCHANGED <<script, source, price_source, bvars, ovars, tvars, cvars, mvars, evars, gvars,
                   validators>>

InitRoster ==
    /\ script \in {"load", "parse"}
    /\ source = << >>
    /\ price_source = << >>
    /\ BittensorAtRest /\ NoTraffic /\ TaostatsAtRest /\ CredsAtRest
    /\ AggregatorsAtRest
    /\ validators \in Rosters
    /\ recs = << >>
    /\ loader = "loop"

NextRoster == load_validators_snapshot \/ parse_snapshot

\* The two loops that give every validator of a file its entity.
SpecRoster == InitRoster /\ [][NextRoster]_vars

---------------------------------------------------------------------------
(* src/chatgpt/ethereum_chatgpt.py: aggregate_over_weeks *)

NumWeeks == 3        \* weekly targets in [window_start, window_end]
BATCH_SIZE == 100

Min(a, b) == IF a <= b THEN a ELSE b

\* sum(d.values()) of a dict d.
RECURSIVE SumValues(_)
SumValues(d) ==
    IF DOMAIN d = {} THEN 0
    ELSE LET k == CHOOSE k \in DOMAIN d : TRUE
         IN  d[k] + SumValues([j \in DOMAIN d \ {k} |-> d[j]])

\* A row of the roster.
Validator(i, e, w) == [validator_index |-> i, entity_id |-> e, sample_weight |-> w]

\* The rosters tried: none; one validator; two validators of one entity that
\* stand for four (sample_weight 2); two entities, one of them sampled.
ValidatorFrames ==
    { << >>,
      << Validator(0, "A", 1) >>,
      << Validator(0, "A", 2), Validator(1, "A", 2) >>,
      << Validator(0, "A", 1), Validator(1, "B", 2) >> }

\* The balance and effective balance a validator's row may report.
Readings ==
    { [balance_gwei |-> 500, effectivebalance_gwei |-> 32],
      [balance_gwei |-> 700, effectivebalance_gwei |-> 32],
      [balance_gwei |-> 600, effectivebalance_gwei |-> 0] }

\* A row of the frame fetch_balancehistory_batch returns (lines 152-160).
HistoryRow(vidx, reading) ==
    [validator_index |-> vidx,
     balance_gwei |-> reading.balance_gwei,
     effectivebalance_gwei |-> reading.effectivebalance_gwei]

\* The rows of the validators at the positions ks of the roster, in the
\* order of the roster: one row for a position that has a reading in
\* answer, none for a position that has not.
RECURSIVE RowsInOrder(_, _, _)
RowsInOrder(df, ks, answer) ==
    IF ks = {} THEN << >>
    ELSE LET k == CHOOSE j \in ks : \A i \in ks : j <= i
             rest == RowsInOrder(df, ks \ {k}, answer)
         IN  IF k \in DOMAIN answer
             THEN <<HistoryRow(df[k].validator_index, answer[k])>> \o rest
             ELSE rest

\* What fetch_balancehistory_batch may return for the batch that starts at
\* start (lines 140-162): a row for every record of the response, which
\* the function takes as they come.  The responses tried hold one record
\* for each validator of any part of the batch, or the same record twice
\* for one validator of the batch.
Histories(df, start) ==
    LET ks == (start + 1)..Min(start + BATCH_SIZE, Len(df)) IN
    { RowsInOrder(df, ks, answer) :
        answer \in UNION { [part -> Readings] : part \in SUBSET ks } }
    \cup
    { <<HistoryRow(df[k].validator_index, r), HistoryRow(df[k].validator_index, r)>> :
        k \in ks, r \in Readings }

\* idx_to_entity (lines 217-219).
IdxToEntity(df) ==
    [i \in { df[k].validator_index : k \in 1..Len(df) } |->
        (CHOOSE k \in 1..Len(df) : df[k].validator_index = i)]

EntityOf(df, vidx) == df[IdxToEntity(df)[vidx]].entity_id

\* all_indices[start_i:start_i + BATCH_SIZE] (line 247).
Batch(df, start) ==
    { df[k].validator_index : k \in (start + 1)..Min(start + BATCH_SIZE, Len(df)) }

\* The delta that takes a first balance for a rise from 0.
DeltaPosFromNothing(prev, vidx, bal) ==
    IF vidx \notin DOMAIN prev THEN bal
    ELSE IF bal - prev[vidx] > 0 THEN bal - prev[vidx] ELSE 0

\* The delta without the clamp at 0.
DeltaSigned(prev, vidx, bal) ==
    IF vidx \notin DOMAIN prev THEN 0 ELSE bal - prev[vidx]

\* Lines 261-267: the issuance of a validator whose balance is now bal.
DeltaPos(prev, vidx, bal) ==
    IF vidx \notin DOMAIN prev THEN 0
    ELSE IF bal - prev[vidx] > 0 THEN bal - prev[vidx] ELSE 0

\* d[k] += n on a defaultdict(int) d (lines 269-270).
Increased(d, k, n) ==
    [j \in DOMAIN d \cup {k} |->
        IF j = k THEN (IF k \in DOMAIN d THEN d[k] ELSE 0) + n ELSE d[j]]

\* d[k] = v that leaves an entry there is as it is.
AssignedOnce(d, k, v) == [j \in DOMAIN d \cup {k} |-> IF j \in DOMAIN d THEN d[j] ELSE v]

\* d[k] = v on a dict d (line 273).
Assigned(d, k, v) == [j \in DOMAIN d \cup {k} |-> IF j = k THEN v ELSE d[j]]

\* Lines 254-273 for the rows of h in their order: acc holds prev_balance,
\* issuance_entity and stake_entity, and with them flow_log, what the loop
\* computes for each validator without keeping it: the bal it read with no
\* prev_bal (line 262), the sum of its delta_pos, and whether it had a
\* delta below 0 (line 266).
RECURSIVE TakeRows(_, _, _)
TakeRows(acc, df, h) ==
    IF h = << >> THEN acc
    ELSE LET row == Head(h)
             vidx == row.validator_index
             ent == EntityOf(df, vidx)
             delta_pos == DeltaPos(acc.prev_balance, vidx, row.balance_gwei)
         IN  TakeRows([prev_balance |-> Assigned(acc.prev_balance, vidx, row.balance_gwei),
                       issuance_entity |-> Increased(acc.issuance_entity, ent, delta_pos),
                       stake_entity |-> Increased(acc.stake_entity, ent,
                                                  row.effectivebalance_gwei),
                       flow_log |->
                           Assigned(acc.flow_log, vidx,
                               IF vidx \in DOMAIN acc.flow_log
                               THEN [first |-> acc.flow_log[vidx].first,
                                     delta_pos |-> acc.flow_log[vidx].delta_pos + delta_pos,
                                     fell |-> \/ acc.flow_log[vidx].fell
                                              \/ row.balance_gwei < acc.prev_balance[vidx]]
                               ELSE [first |-> row.balance_gwei,
                                     delta_pos |-> delta_pos,
                                     fell |-> FALSE])],
                      df, Tail(h))

\* The inner loop given up before its first batch.
BatchesDoneAtOnce(df, start) == TRUE

\* range(0, len(all_indices), BATCH_SIZE) is exhausted at start (line 244).
BatchesDone(df, start) == start >= Len(df)

\* The totals of the week before taken over.
KeptTotals(old) == old

\* defaultdict(int) for the new week, whatever the totals of the week before
\* (lines 238-239).
NewWeekTotals(old) == EmptyDict

\* Lines 234-241: the outer loop takes the next week, or the function
\* returns (line 301).
week_start ==
    /\ script = "weeks"
    /\ epc = "week"
    /\ IF ts_week <= NumWeeks
       THEN /\ epc' = "batch"
            /\ issuance_entity' = NewWeekTotals(issuance_entity)
            /\ stake_entity' = NewWeekTotals(stake_entity)
            /\ start_i' = 0
       ELSE /\ epc' = "returned"
            /\ UNCHANGED <<issuance_entity, stake_entity, start_i>>
    /\ UNCHANGED <<script, source, price_source, bvars, ovars, tvars, cvars, mvars, rvars, gvars,
                   validators_df, ts_week, hist, prev_balance, flow_log, out_rows>>

\* One iteration of the inner loop (lines 244-278).  bc_get raises for an
\* error status (line 107) and for a connection error, and nothing between
\* it and main catches that: out_rows is lost with the frame of the call.
fetch_batch ==
    /\ script = "weeks"
    /\ epc = "batch"
    /\ ~BatchesDone(validators_df, start_i)
    /\ \/ /\ epc' = "raised"
          /\ UNCHANGED <<start_i, hist, prev_balance, flow_log, issuance_entity,
                         stake_entity>>
       \/ \E h \in Histories(validators_df, start_i) :
            LET acc == TakeRows([prev_balance |-> prev_balance,
                                 issuance_entity |-> issuance_entity,
                                 stake_entity |-> stake_entity,
                                 flow_log |-> flow_log], validators_df, h)
            IN  /\ hist' = h
                /\ start_i' = start_i + BATCH_SIZE
                /\ issuance_entity' = acc.issuance_entity
                /\ stake_entity' = acc.stake_entity
                /\ prev_balance' = acc.prev_balance
                /\ flow_log' = acc.flow_log
                /\ UNCHANGED epc
    /\ UNCHANGED <<script, source, price_source, bvars, ovars, tvars, cvars, mvars, rvars, gvars,
                   validators_df, ts_week, out_rows>>

\* The division made whatever the total.
ShareUnguarded(val, total) == <<val, total>>

\* A share val / total as the exact fraction <<val, total>>, and 0 when the
\* total is not positive (lines 288-289, 213-214).
Share(val, total) == IF total > 0 THEN <<val, total>> ELSE <<0, 1>>

\* Lines 281-299: the rows of the week that is through.  The week the chain
\* reports in its rows is taken to be the week asked for.
week_rows ==
    /\ script = "weeks"
    /\ epc = "batch"
    /\ BatchesDone(validators_df, start_i)
    /\ LET total_issuance == SumValues(issuance_entity)
           total_stake == SumValues(stake_entity)
       IN  out_rows' = out_rows \cup
             { LET eff_val == IF ent_id \in DOMAIN stake_entity
                              THEN stake_entity[ent_id] ELSE 0
               IN  [week_chain |-> ts_week,
                    entity_id |-> ent_id,
                    issuance_gwei_pos |-> issuance_entity[ent_id],
                    effectivebalance_gwei |-> eff_val,
                    reward_share |-> Share(issuance_entity[ent_id], total_issuance),
                    stake_share |-> Share(eff_val, total_stake)]
               : ent_id \in DOMAIN issuance_entity }
    /\ ts_week' = ts_week + 1
    /\ epc' = "week"
    /\ UNCHANGED <<script, source, price_source, bvars, ovars, tvars, cvars, mvars, rvars, gvars,
                   validators_df, start_i, hist, prev_balance, flow_log,
                   issuance_entity,
                   stake_entity>>

---------------------------------------------------------------------------
(* src/chatgpt/bittensor_get_emissions.py: aggregate_by_coldkey *)

MaxFrame == 2        \* rows of the frame given to aggregate_by_coldkey

\* A row of df_latest, as far as aggregate_by_coldkey reads it.
LatestRows ==
    { [coldkey |-> c, effective_stake_rao |-> st, reward_rate_rao |-> rw] :
        c \in {1, 2}, st \in {0, 3}, rw \in {0, 1} }

LatestFrames == UNION { [1..n -> LatestRows] : n \in 0..MaxFrame }

\* Lines 189-217.  The rows of the result are a set: the sort of line 216
\* orders them and changes none.
AggregateByColdkey(df) ==
    IF df = << >> THEN {}
    ELSE LET keys == { df[i].coldkey : i \in 1..Len(df) }
             Of(c) == { i \in 1..Len(df) : df[i].coldkey = c }
             stake_total == [c \in keys |->
                 SumValues([i \in Of(c) |-> df[i].effective_stake_rao])]
             reward_total == [c \in keys |->
                 SumValues([i \in Of(c) |-> df[i].reward_rate_rao])]
             total_stake == SumValues(stake_total)
             total_reward == SumValues(reward_total)
         IN  { [coldkey |-> c,
                stake_total |-> stake_total[c],
                reward_total |-> reward_total[c],
                stake_share |-> Share(stake_total[c], total_stake),
                reward_share |-> Share(reward_total[c], total_reward)] : c \in keys }

\* One call of aggregate_by_coldkey (lines 239, 249).
aggregate_by_coldkey ==
    /\ script = "coldkey"
    /\ agg = NotAggregated
    /\ agg' = [done |-> TRUE, rows |-> AggregateByColdkey(df_latest)]
    /\ UNCHANGED <<script, source, price_source, bvars, ovars, tvars, cvars, mvars, rvars, evars,
                   df_latest>>

---------------------------------------------------------------------------
(* The aggregators as programs *)

\* aggregate_over_weeks called by main (lines 309-320).
InitWeeks ==
    /\ script = "weeks"
    /\ source = << >>
    /\ price_source = << >>
    /\ BittensorAtRest /\ NoTraffic /\ TaostatsAtRest /\ CredsAtRest
    /\ validators = << >> /\ recs = << >> /\ loader = "loop"
    /\ ColdkeyAtRest /\ MetricsAtRest
    /\ validators_df \in ValidatorFrames
    /\ epc = "week"
    /\ ts_week = 1
    /\ start_i = 0
    /\ hist = EmptyDict
    /\ prev_balance = EmptyDict
    /\ flow_log = EmptyDict
    /\ issuance_entity = EmptyDict
    /\ stake_entity = EmptyDict
    /\ out_rows = {}

\* One call of aggregate_by_coldkey.
InitColdkey ==
    /\ script = "coldkey"
    /\ source = << >>
    /\ price_source = << >>
    /\ BittensorAtRest /\ NoTraffic /\ TaostatsAtRest /\ CredsAtRest
    /\ validators = << >> /\ recs = << >> /\ loader = "loop"
    /\ WeeksAtRest /\ MetricsAtRest
    /\ df_latest \in LatestFrames
    /\ agg = NotAggregated

InitAggregators == InitWeeks \/ InitColdkey

NextAggregators ==
    \/ week_start
    \/ fetch_batch
    \/ week_rows
    \/ aggregate_by_coldkey

\* The two aggregators, each on its own input.
SpecAggregators == InitAggregators /\ [][NextAggregators]_vars

NextWindows ==
    \/ main_loop
    \/ fetch_daily_prices
    \/ main_call_miners
    \/ fetch_miners_snapshot
    \/ main_rows
    \/ week_start
    \/ fetch_batch
    \/ week_rows

\* The two programs that go through their windows: main of src/bittensor.py
\* and aggregate_over_weeks.
SpecWindows == (InitBittensor \/ InitWeeks) /\ [][NextWindows]_vars

---------------------------------------------------------------------------
(* float64, as far as gini needs it *)

\* A natural number is the sequence of its binary digits, the lowest first
\* and the highest a 1; 0 is the empty sequence.  A double is a sign and a
\* magnitude counted in units of 2^-Scale.  Every double gini meets between
\* the epsilon shift and the division is a multiple of that unit: the
\* literal 0.0000001 is 0x1.ad7f29abcaf48p-24, that is 0x1ad7f29abcaf48
\* units of 2^-76, and it is the smallest term.
Scale == 76
Precision == 53      \* binary digits of a float64 significand

\* The binary digits of the integer n >= 0.
RECURSIVE NatOf(_)
NatOf(n) == IF n = 0 THEN << >> ELSE <<n % 2>> \o NatOf(n \div 2)

Zeros(k) == [i \in 1..k |-> 0]

\* a without zeros above its highest 1.
RECURSIVE Trimmed(_)
Trimmed(a) ==
    IF a = << >> THEN a
    ELSE IF a[Len(a)] = 1 THEN a
    ELSE Trimmed(SubSeq(a, 1, Len(a) - 1))

Digit(a, i) == IF i <= Len(a) THEN a[i] ELSE 0

\* The digits of a + b + c from place i on, c being the carry into it.
RECURSIVE AddFrom(_, _, _, _)
AddFrom(a, b, i, c) ==
    IF i > Len(a) /\ i > Len(b) THEN (IF c = 1 THEN <<1>> ELSE << >>)
    ELSE <<(Digit(a, i) + Digit(b, i) + c) % 2>>
           \o AddFrom(a, b, i + 1, (Digit(a, i) + Digit(b, i) + c) \div 2)

NatAdd(a, b) == AddFrom(a, b, 1, 0)

\* The digits of a - b - c from place i on, for a >= b, c being the borrow
\* from it.
RECURSIVE SubFrom(_, _, _, _)
SubFrom(a, b, i, c) ==
    IF i > Len(a) THEN << >>
    ELSE <<(Digit(a, i) - Digit(b, i) - c + 2) % 2>>
           \o SubFrom(a, b, i + 1, IF Digit(a, i) - Digit(b, i) - c < 0 THEN 1 ELSE 0)

NatSub(a, b) == Trimmed(SubFrom(a, b, 1, 0))

\* a < b for a and b of the same length, decided at the highest digit
\* among the lowest i in which they differ.
RECURSIVE LessFrom(_, _, _)
LessFrom(a, b, i) ==
    IF i = 0 THEN FALSE
    ELSE IF a[i] # b[i] THEN a[i] < b[i]
    ELSE LessFrom(a, b, i - 1)

\* a < b.
NatLess(a, b) ==
    \/ Len(a) < Len(b)
    \/ Len(a) = Len(b) /\ LessFrom(a, b, Len(a))

\* a times the integer k >= 0.
RECURSIVE NatTimes(_, _)
NatTimes(a, k) ==
    IF k = 0 \/ a = << >> THEN << >>
    ELSE IF k % 2 = 1 THEN NatAdd(a, NatTimes(<<0>> \o a, k \div 2))
    ELSE NatTimes(<<0>> \o a, k \div 2)

\* The nearest number of at most Precision significant digits, the even
\* one of two equally near: the rounding of every float64 operation.
Rounded(a) ==
    IF Len(a) <= Precision THEN a
    ELSE LET drop == Len(a) - Precision
             kept == SubSeq(a, drop + 1, Len(a))
             sticky == \E i \in 1..(drop - 1) : a[i] = 1
             up == a[drop] = 1 /\ (sticky \/ kept[1] = 1)
         IN  Zeros(drop) \o (IF up THEN NatAdd(kept, <<1>>) ELSE kept)

Double(neg, mag) == [neg |-> neg /\ mag # << >>, mag |-> mag]

\* float(n) of an integer n of few digits.
DoubleOf(n) == Double(n < 0, Trimmed(Zeros(Scale) \o NatOf(IF n < 0 THEN -n ELSE n)))

\* The literal 0.0000001 (line 15): 0x1ad7f29abcaf48 units, the hexadecimal
\* digits given from the highest.
RECURSIVE HexDigits(_)
HexDigits(h) ==
    IF h = << >> THEN << >>
    ELSE HexDigits(Tail(h)) \o [i \in 1..4 |-> (Head(h) \div (2 ^ (i - 1))) % 2]

EPSILON == Double(FALSE, Trimmed(HexDigits(<<1, 10, 13, 7, 15, 2, 9, 10, 11, 12, 10, 15, 4, 8>>)))

\* x + y in float64.
DoubleAdd(x, y) ==
    IF x.neg = y.neg THEN Double(x.neg, Rounded(NatAdd(x.mag, y.mag)))
    ELSE IF NatLess(x.mag, y.mag) THEN Double(y.neg, Rounded(NatSub(y.mag, x.mag)))
    ELSE Double(x.neg, Rounded(NatSub(x.mag, y.mag)))

DoubleNeg(x) == Double(~x.neg, x.mag)

\* x < y.
DoubleLess(x, y) ==
    IF x.neg # y.neg THEN x.neg
    ELSE IF x.neg THEN NatLess(y.mag, x.mag) ELSE NatLess(x.mag, y.mag)

\* k * x in float64, for an integer k, which float64 holds exactly.
DoubleTimes(k, x) ==
    Double(x.neg # (k < 0), Rounded(NatTimes(x.mag, IF k < 0 THEN -k ELSE k)))

---------------------------------------------------------------------------
(* src/eth_working/gini.py *)

MaxLen == 5          \* entities of a week

\* The validator counts of a week's entities (line 37): every vector of
\* the counts 1 and 33, and the vectors of 0 alone.  The counts are positive
\* in the data; vectors with 0 or a negative number among others are tried
\* as well, which gini provides for (lines 12-15).
ShareVectors ==
    UNION { [1..n -> {1, 33}] \cup [1..n -> {0}] : n \in 1..MaxLen }
    \cup { <<0, 1>>, <<33, 0, 1>>, <<-1, 1>>, <<1, 0, -1>> }

\* q with the elements at i and i + 1 exchanged.
Exchanged(q, i) ==
    [j \in 1..Len(q) |->
        IF j = i /\ i < Len(q) THEN q[i + 1]
        ELSE IF j = i + 1 /\ j <= Len(q) THEN q[i]
        ELSE q[j]]

\* q with its first element moved to the end.
Rotated(q) == Tail(q) \o <<Head(q)>>

\* ndarray.flatten() (line 11) returns a copy.
Flatten(a) == [data |-> a, view |-> FALSE]

\* np.amin.
RECURSIVE Amin(_)
Amin(a) == IF Len(a) = 1 THEN a[1] ELSE Min(a[1], Amin(Tail(a)))

\* The array as it is given.
Unsorted(a) == a

\* The ascending array rest with x put before its first element that is
\* not below x.
RECURSIVE Inserted(_, _)
Inserted(x, rest) ==
    IF rest = << >> THEN <<x>>
    ELSE IF DoubleLess(Head(rest), x) THEN <<Head(rest)>> \o Inserted(x, Tail(rest))
    ELSE <<x>> \o rest

\* np.sort of doubles (line 16): a new array, ascending.
RECURSIVE Sorted(_)
Sorted(a) == IF a = << >> THEN a ELSE Inserted(Head(a), Sorted(Tail(a)))

\* np.sum of doubles: below eight elements, added one after the other to
\* 0.0.
RECURSIVE NpSum(_, _)
NpSum(acc, a) == IF a = << >> THEN acc ELSE NpSum(DoubleAdd(acc, Head(a)), Tail(a))

\* num / den (line 19), kept as its operands: the quotient is 0 exactly
\* when num is 0, and equal operands give equal quotients.
Quotient(num, den) == [num |-> num, den |-> den]

\* Lines 12-13, on integers.
Shifted(data, least) ==
    IF least < 0 THEN [i \in 1..Len(data) |-> data[i] - least] ELSE data

\* Lines 14-15.
Floats(data) == [i \in 1..Len(data) |-> DoubleAdd(DoubleOf(data[i]), EPSILON)]

\* A factor that is off by one.
RankWeightUncentred(i, n) == 2 * i - n

\* 2 * index - n - 1 (line 19) at the index i.
RankWeight(i, n) == 2 * i - n - 1

\* Lines 17-19 on the sorted array.
GiniOfSorted(sorted, n) ==
    Quotient(NpSum(DoubleOf(0), [i \in 1..n |-> DoubleTimes(RankWeight(i, n), sorted[i])]),
             DoubleTimes(n, NpSum(DoubleOf(0), sorted)))

\* The rest of gini after flatten: flat is its array, array the caller's.
GiniOfFlat(array, flat, shifted) ==
    [result |-> GiniOfSorted(Sorted(Floats(shifted)), Len(array)),
     array |-> IF flat.view THEN shifted ELSE array]

\* gini (lines 9-19).  result is what it returns and array what the
\* caller's array holds after the call.
Gini(array) ==
    GiniOfFlat(array, Flatten(array), Shifted(Flatten(array).data, Amin(Flatten(array).data)))

\* The ascending integers rest with x put in its place.
RECURSIVE InsertedInt(_, _)
InsertedInt(x, rest) ==
    IF rest = << >> THEN <<x>>
    ELSE IF Head(rest) < x THEN <<Head(rest)>> \o InsertedInt(x, Tail(rest))
    ELSE <<x>> \o rest

\* np.sort of integers, ascending.
RECURSIVE SortedInts(_)
SortedInts(a) == IF a = << >> THEN a ELSE InsertedInt(Head(a), SortedInts(Tail(a)))

Reversed(a) == [i \in 1..Len(a) |-> a[Len(a) + 1 - i]]

\* np.cumsum.
CumSum(a) == [i \in 1..Len(a) |-> SumValues([j \in 1..i |-> a[j]])]

\* The threshold 0.33 of line 49 is ThresholdNum / ThresholdDen.
ThresholdNum == 33
ThresholdDen == 100

\* c / t < 0.33 in float64, for integers c and t of few digits.  The
\* literal is the double nearest to 33/100 and c / t the double nearest to
\* the fraction; two such fractions that differ lie further apart than
\* neighbouring doubles, so the doubles compare as the fractions do.  c / 0
\* is an infinity or nan, and nan is below nothing.
BelowThreshold(c, t) ==
    IF t > 0 THEN c * ThresholdDen < ThresholdNum * t
    ELSE IF t < 0 THEN c * ThresholdDen > ThresholdNum * t
    ELSE c < 0

\* np.searchsorted(cumsum / t, 0.33), side 'left': the binary search for
\* the first element not below the key, between min_idx and max_idx.
RECURSIVE SearchSorted(_, _, _, _)
SearchSorted(cumsum, t, min_idx, max_idx) ==
    IF min_idx >= max_idx THEN min_idx
    ELSE LET mid == min_idx + (max_idx - min_idx) \div 2 IN
         IF BelowThreshold(cumsum[mid + 1], t)
         THEN SearchSorted(cumsum, t, mid + 1, max_idx)
         ELSE SearchSorted(cumsum, t, min_idx, mid)

\* Lines 47-49.
Nakamoto33(shares) ==
    LET sorted_shares == Reversed(SortedInts(shares))
        total_validators == SumValues(shares)
    IN  SearchSorted(CumSum(sorted_shares), total_validators, 0, Len(shares)) + 1

\* Lines 37-57 after the call of gini (line 39), which returned
\* called.result and left called.array in shares.
Appended(date_val, called) ==
    /\ grouped' = [grouped EXCEPT ![date_val] = called.array]
    /\ gini_results' = Append(gini_results,
           [date |-> date_val,
            gini |-> called.result,
            entity_count |-> Len(called.array),
            total_validators |-> SumValues(called.array),
            nakamoto_33 |-> Nakamoto33(called.array)])

\* One iteration of the loop over the weeks (lines 35-57).
gini_main ==
    /\ script = "gini"
    /\ Len(gini_results) < Len(grouped)
    /\ Appended(Len(gini_results) + 1, Gini(grouped[Len(gini_results) + 1]))
    /\ UNCHANGED <<script, source, price_source, bvars, ovars, tvars, cvars, rvars, evars,
                   gvars>>

\* Two weeks whose entities have the same counts, in the order of the first
\* week or with two neighbours exchanged or the first moved to the end.
InitGini ==
    /\ script = "gini"
    /\ source = << >>
    /\ price_source = << >>
    /\ BittensorAtRest /\ NoTraffic /\ TaostatsAtRest /\ CredsAtRest
    /\ validators = << >> /\ recs = << >> /\ loader = "loop"
    /\ WeeksAtRest /\ ColdkeyAtRest
    /\ \E q \in ShareVectors :
          grouped \in { <<q, Exchanged(q, 1)>>, <<q, Rotated(q)>> }
    /\ gini_results = << >>

SpecGini == InitGini /\ [][gini_main]_vars

---------------------------------------------------------------------------
(* Properties of the paginators *)

\* The items of pages 1..k of data.
ItemsUpTo(data, k) ==
    UNION { { data[p][i] : i \in 1..Len(data[p]) } : p \in (1..k) \cap (1..Len(data)) }

SubjectsUpTo(data, k) == { m.uid : m \in ItemsUpTo(data, k) }

FrameRows(frame) == { frame[i] : i \in 1..Len(frame) }

\* This step is one request of the running paginator call and its answer.
Arrived == n_req' = n_req + 1

EmptyPageArrived ==
    /\ Arrived
    /\ last_resp'.kind = "http" /\ last_resp'.status = 200
    /\ last_resp'.n_items = 0

\* A non-empty page arrived and the loop over its items raised nothing.
NonEmptyPageTaken ==
    /\ Arrived
    /\ last_resp'.kind = "http" /\ last_resp'.status = 200
    /\ last_resp'.n_items > 0
    /\ (script = "bittensor" /\ pc = "fms") =>
           ~MinerFold(miner_dict, PageOf(source, page)).raised
    /\ (script = "bittensor" /\ pc = "fdp") =>
           ~PriceFold(price_map, PageOf(price_source, page)).raised

\* The paginator stays in its loop and will request the next page.
GoesOn ==
    /\ page' = page + 1
    /\ script = "bittensor" => pc' = pc
    /\ script = "taostats" => cpc'[1] = "idle"

\* The answer is a failed fetch: an exception, or an error status but 429.
FetchFailed(sig) ==
    \/ sig.kind = "exception"
    \/ sig.kind = "http" /\ sig.status \notin {200, 429}

\* C1: in fetch_miners_snapshot and in fetch_snapshot_before, a page with no
\* items ends the call at once (no further request), and what the call
\* returns holds exactly the subjects of the pages answered before it, each
\* with one of their items; after pages of 2 and 2 items with four distinct
\* subjects and no other request, the empty third page gives 4 records after
\* 3 requests.
C1_EmptyPageEndsPagination ==
    [][ EmptyPageArrived =>
          /\ (script = "bittensor" /\ pc = "fms") =>
                /\ pc' = "rows"
                /\ miners' \subseteq ItemsUpTo(source, page - 1)
                /\ { m.uid : m \in miners' } = SubjectsUpTo(source, page - 1)
                /\ (/\ page_sizes = <<2, 2>> /\ n_req = 2
                    /\ Cardinality(SubjectsUpTo(source, page - 1)) = 4)
                      => Cardinality(miners') = 4 /\ n_req' = 3
          /\ script = "taostats" =>
                /\ fsb'.kind = "returned" /\ cpc'[1] = "done"
                /\ FrameRows(fsb'.frame) \subseteq
                       { Row(m) : m \in ItemsUpTo(source, page - 1) }
                /\ { x.hotkey : x \in FrameRows(fsb'.frame) } =
                       SubjectsUpTo(source, page - 1)
                /\ (/\ page_sizes = <<2, 2>> /\ n_req = 2
                    /\ Cardinality(SubjectsUpTo(source, page - 1)) = 4)
                      => Len(fsb'.frame) = 4 /\ n_req' = 3
      ]_vars

\* fetch_snapshot_before has returned four rows after pages of 2, 2 and 0 items.
C1_Witness ==
    /\ script = "taostats"
    /\ fsb.kind = "returned"
    /\ page_sizes = <<2, 2, 0>> /\ n_req = 3
    /\ Len(fsb.frame) = 4
    /\ Cardinality({ fsb.frame[i].hotkey : i \in 1..4 }) = 4

\* The rule of signals in layers: the next-page flag when the response
\* carries one, else the total-pages count when it carries one, else go on.
LayeredRule(sig, p) ==
    IF sig.next_page # "absent" THEN sig.next_page = "set"
    ELSE IF ~IsNone(sig.total_pages) THEN p < Val(sig.total_pages)
    ELSE TRUE

C3_FailureReturnsAccumulated ==
    /\ (script = "bittensor" /\ pc = "rows" /\ FetchFailed(last_resp)) =>
           { m.uid : m \in miners } = SubjectsUpTo(source, page - 1)
    /\ (script = "taostats" /\ cpc[1] = "done" /\ FetchFailed(last_resp)) =>
           /\ fsb.kind = "returned"
           /\ { x.hotkey : x \in FrameRows(fsb.frame) } = SubjectsUpTo(source, page - 1)

\* What the run keeps of window w, apart from the window's date.
KeptOf(w) ==
    { [block |-> x.block, netuid |-> x.netuid, uid |-> x.uid,
       alpha_price |-> x.alpha_price] : x \in { y \in all_records : y.date = w } }

\* C4: of two windows main is through with, one whose fetch was aborted by a
\* fetch error and one whose fetch completed, the same records are not both
\* returned to main and kept by the run in the same form.
C4_AbortedWindowIsMarked ==
    \A w1, w2 \in 1..NumWindows :
        (/\ script = "bittensor"
         /\ w1 < current_date /\ w2 < current_date
         /\ calls[w1].outcome = "aborted"
         /\ calls[w2].outcome = "complete")
        => \/ calls[w1].miners # calls[w2].miners
           \/ KeptOf(w1) # KeptOf(w2)

\* C5: a 429 answer leaves fetch_miners_snapshot and fetch_daily_prices in
\* their loop with the page counter and the accumulated entries as they were,
\* so that the next request is for the same page.
C5_RateLimitedPageIsRetried ==
    [][ (/\ script = "bittensor"
         /\ Arrived
         /\ last_resp'.kind = "http" /\ last_resp'.status = 429)
        => /\ pc' = pc
           /\ page' = page
           /\ miner_dict' = miner_dict
           /\ price_map' = price_map ]_vars

---------------------------------------------------------------------------
(* Properties of Taostats.get *)

TransientStatus(s) == s = 429 \/ s \in 500..599
FatalStatus(s) == s \in 400..499 /\ s # 429

\* C6: two calls of get, one answered with 429 or 5xx and one with another
\* 4xx, end in errors of different kinds.
C6_TransientAndFatalDiffer ==
    \A c, d \in Callers :
        (/\ get_out[c].exc # "none" /\ TransientStatus(get_out[c].status)
         /\ get_out[d].exc # "none" /\ FatalStatus(get_out[d].status))
        => get_out[c].exc # get_out[d].exc

\* The latest two requests are no closer than 60/max(1, rpm_limit) seconds.
Spaced == Len(issued) = 2 => (issued[2] - issued[1]) * Max(1, rpm_limit) >= 60

\* C7: with the calls of get following one another, two consecutive requests
\* are sent at least 60/max(1, rpm_limit) seconds apart, the time recorded
\* is the instant of the latest request, a sleeping call wakes no earlier
\* than the interval after it, and the first call does not sleep.
C7_SequentialCallsAreSpaced ==
    script \in {"get", "taostats"} =>
        /\ Spaced
        /\ issued # << >> => self_last = issued[Len(issued)]
        /\ \A c \in Callers :
              /\ cpc[c] = "sleeping" => wake[c] * Max(1, rpm_limit) >=
                                           self_last * Max(1, rpm_limit) + 60
              /\ issued = << >> => cpc[c] \notin {"throttle", "sleeping"}

\* A second request has gone out exactly the interval after the first, its
\* call having slept.
C7_Witness ==
    /\ script = "get"
    /\ rpm_limit = 30
    /\ Len(issued) = 2 /\ issued[2] - issued[1] = 2
    /\ cpc[2] = "waiting" /\ cpc[1] = "idle"

\* C8: with callers whose steps interleave, no two requests are sent less
\* than 60/max(1, rpm_limit) seconds apart.
C8_ConcurrentCallsAreSpaced == script = "threads" => Spaced

---------------------------------------------------------------------------
(* Properties of creds_to_entity *)

\* The argument is "0x" and the 64 hexadecimal digits of 32 bytes.
IsCred32(hex) == Len(hex) = 66 /\ \A i \in 3..66 : IsHexChar(hex[i])

\* The argument's bytes are well formed and there is at least one.
IsCred(hex) ==
    /\ Len(hex) >= 4 /\ Len(hex) % 2 = 0
    /\ \A i \in 3..Len(hex) : IsHexChar(hex[i])

FirstByte(hex) == 16 * HexVal(hex[3]) + HexVal(hex[4])

\* The number a string of decimal digits denotes.
RECURSIVE DigitsValue(_)
DigitsValue(d) ==
    IF d = << >> THEN 0
    ELSE 10 * DigitsValue(SubSeq(d, 1, Len(d) - 1)) + HexVal(d[Len(d)])

IsLegacyKey(key, index) ==
    /\ Len(key) >= 8
    /\ SubSeq(key, 1, 7) = <<"l", "e", "g", "a", "c", "y", "_">>
    /\ \A i \in 8..Len(key) : IsHexChar(key[i]) /\ HexVal(key[i]) <= 9
    /\ (Len(key) > 8 => key[8] # "0")
    /\ DigitsValue(SubSeq(key, 8, Len(key))) = index

\* C9: a 32-byte credential whose first byte is 1 or 2 gives "0x" and the
\* last 40 digits of the argument in lower case, whatever the index; a
\* credential with another first byte gives "legacy_" and the index in
\* decimal.
C9_AddressOrLegacy ==
    (script = "creds" /\ entity # NotCalled) =>
        /\ (IsCred32(creds_hex) /\ FirstByte(creds_hex) \in {1, 2}) =>
               /\ entity.exc = "none"
               /\ entity.key = <<"0", "x">> \o
                      [i \in 1..40 |-> LowerChar(creds_hex[26 + i])]
        /\ (IsCred(creds_hex) /\ FirstByte(creds_hex) \notin {1, 2}) =>
               /\ entity.exc = "none"
               /\ IsLegacyKey(entity.key, fallback_index)

\* The call for 0x02, eleven zero bytes and twenty bytes AA has returned
\* 0x and forty a's.
C9_Witness ==
    /\ script = "creds"
    /\ creds_hex = Credential(<<"0", "2">>, <<"A", "A">>, 32)
    /\ fallback_index = 7
    /\ entity = Returned(<<"0", "x">> \o Repeat(<<"a">>, 40))

\* C10: for every credential, whatever its type and its length, the empty
\* one included, the call returns a key that is not empty and raises nothing.
C10_TotalOnCredentials ==
    (/\ script = "creds" /\ entity # NotCalled
     /\ ~FromHexRaises(From(creds_hex, 2)))
    => entity.exc = "none" /\ entity.key # << >>

---------------------------------------------------------------------------
(* Properties of the entities given to the validators of a file *)

\* The validator's owner address cannot be had from its credentials.
Unresolved(v) ==
    \/ IsNone(v.withdrawal_credentials)
    \/ FirstByte(Val(v.withdrawal_credentials)) \notin {1, 2}

\* C11: no validator makes the loop raise, the finished loop has a record
\* for every validator, and the entity of a validator without a recoverable
\* owner address is the entity of no other validator.
C11_SyntheticKeysAreUnique ==
    script \in {"load", "parse"} =>
        /\ loader \in {"loop", "returned"}
        /\ loader = "returned" => Len(recs) = Len(validators)
        /\ \A i, j \in 1..Len(recs) :
              (i # j /\ Unresolved(validators[i])) =>
                  recs[i].entity_id # recs[j].entity_id

---------------------------------------------------------------------------
(* Properties of the deduplication *)

Present(x) == ~IsNone(x)

\* Record a is as new as record b: its block number is no lower, and with
\* block numbers tied or both absent its timestamp is no earlier.
AsNewAs(a, b) ==
    /\ Present(b.block_number) =>
           Present(a.block_number) /\ Val(a.block_number) >= Val(b.block_number)
    /\ a.block_number = b.block_number =>
           \/ IsNone(b.timestamp)
           \/ Present(a.timestamp) /\ Val(a.timestamp) >= Val(b.timestamp)

\* Every record of kept is as new as every record of all for its subject.
KeepsNewest(kept, all, subject) ==
    \A a \in kept : \A b \in all : a[subject] = b[subject] => AsNewAs(a, b)

SeqRange(q) == { q[i] : i \in 1..Len(q) }

\* fetch_miners_snapshot has returned for this window without a failed fetch.
FmsCompleted == script = "bittensor" /\ pc = "rows" /\ calls[current_date].outcome = "complete"

\* C12: the records fetch_miners_snapshot returns after a fetch without
\* failures, and the rows of the frame fetch_snapshot_before returns, are
\* for each subject as new as every record fetched for it: highest block
\* number, and the latest timestamp where block numbers are tied or absent.
C12_NewestRecordKept ==
    /\ FmsCompleted => KeepsNewest(miners, ItemsUpTo(source, page), "uid")
    /\ (script = "taostats" /\ fsb.kind = "returned") =>
           KeepsNewest(FrameRows(fsb.frame), SeqRange(rows_all), "hotkey")

\* The subjects of the records fetched by the running paginator call: the
\* pages before page, and page too once it was answered with 200.
FetchedSubjects ==
    SubjectsUpTo(source,
                 IF last_resp.kind = "http" /\ last_resp.status = 200
                 THEN page ELSE page - 1)

\* C13: between the iterations of fetch_miners_snapshot miner_dict holds one
\* record under every subject fetched so far and no other; what the call
\* returns, and the frame fetch_snapshot_before returns, hold every subject
\* of the fetched records once.
C13_OneRecordPerSubject ==
    /\ (script = "bittensor" /\ pc = "fms") =>
           /\ \A k \in DOMAIN miner_dict : miner_dict[k].uid = k
           /\ DOMAIN miner_dict = SubjectsUpTo(source, page - 1)
    /\ (script = "bittensor" /\ pc = "rows") =>
           /\ Cardinality(miners) = Cardinality({ m.uid : m \in miners })
           /\ { m.uid : m \in miners } = FetchedSubjects
    /\ (script = "taostats" /\ fsb.kind = "returned") =>
           /\ Len(fsb.frame) = Cardinality({ x.hotkey : x \in FrameRows(fsb.frame) })
           /\ { x.hotkey : x \in FrameRows(fsb.frame) } = FetchedSubjects

\* The orderings of the sequence q.
Orderings(q) ==
    { [i \in 1..Len(q) |-> q[f[i]]] :
        f \in { g \in [1..Len(q) -> 1..Len(q)] :
                  \A i, j \in 1..Len(q) : g[i] = g[j] => i = j } }

\* The items of pages 1..k of data, one after the other.
RECURSIVE Flat(_, _)
Flat(data, k) ==
    IF k = 0 \/ data = << >> THEN << >>
    ELSE IF k > Len(data) THEN Flat(data, Len(data))
    ELSE Flat(data, k - 1) \o data[k]

\* C14: whatever the order in which the records fetched by a call without
\* failures arrive, the deduplication of fetch_miners_snapshot gives the
\* snapshot the call returned, and so does that of fetch_snapshot_before.
C14_OrderIndependent ==
    /\ FmsCompleted =>
           \A q \in Orderings(Flat(source, page)) :
               LET f == MinerFold(EmptyDict, q) IN ~f.raised /\ Values(f.map) = miners
    /\ (script = "taostats" /\ fsb.kind = "returned") =>
           \A q \in Orderings(rows_all) :
               FrameRows(DfLatest(q)) = FrameRows(fsb.frame)

\* The sequences that hold every element of the set S once.
ListsOf(S) ==
    { q \in [1..Cardinality(S) -> S] :
        \A i, j \in 1..Cardinality(S) : q[i] = q[j] => i = j }

\* C15: the deduplication of fetch_miners_snapshot applied to the records
\* the call returned, in any order, gives these records again, and that of
\* fetch_snapshot_before applied to the frame it returned gives this frame.
C15_DedupIdempotent ==
    /\ (script = "bittensor" /\ pc = "rows") =>
           \A q \in ListsOf(miners) :
               LET f == MinerFold(EmptyDict, q) IN ~f.raised /\ Values(f.map) = miners
    /\ (script = "taostats" /\ fsb.kind = "returned") =>
           DfLatest(fsb.frame) = fsb.frame

\* fetch_snapshot_before has returned two rows for three rows fetched.
C15_Witness ==
    /\ script = "taostats" /\ fsb.kind = "returned"
    /\ Len(rows_all) = 3 /\ Len(fsb.frame) = 2

---------------------------------------------------------------------------
(* Properties of the aggregators *)

Zero == <<0, 1>>

\* The shares of rows, in the field share, belong to the totals in the
\* field amount: with a positive sum of the totals every share is over that sum
\* and the numerators add up to it (the shares sum to 1); with a sum of 0
\* every share is 0.
SharesSumToOne(rows, amount, share) ==
    LET total == SumValues([r \in rows |-> r[amount]]) IN
    IF total > 0
    THEN /\ \A r \in rows : r[share][2] = total /\ r[share][1] >= 0
         /\ SumValues([r \in rows |-> r[share][1]]) = total
    ELSE \A r \in rows : r[share] = Zero

WeekRows(w) == { r \in out_rows : r.week_chain = w }

\* C16: in the rows aggregate_over_weeks emits for a week and in the rows
\* aggregate_by_coldkey returns, the stake shares and the reward shares each
\* sum to 1 when the total of the period is positive and are all 0 when it
\* is 0.
C16_SharesSumToOne ==
    /\ script = "weeks" =>
           \A w \in 1..NumWeeks :
               /\ SharesSumToOne(WeekRows(w), "issuance_gwei_pos", "reward_share")
               /\ SharesSumToOne(WeekRows(w), "effectivebalance_gwei", "stake_share")
    /\ (script = "coldkey" /\ agg.done) =>
           /\ SharesSumToOne(agg.rows, "stake_total", "stake_share")
           /\ SharesSumToOne(agg.rows, "reward_total", "reward_share")

\* The second week's rows give entity A two thirds and entity B one third
\* of the issuance, and the first week's rows, without issuance, give 0.
C16_Witness ==
    /\ script = "weeks"
    /\ \E a, b \in WeekRows(2) :
          /\ a.entity_id = "A" /\ a.reward_share = <<200, 300>>
          /\ b.entity_id = "B" /\ b.reward_share = <<100, 300>>
    /\ \E a \in WeekRows(1) : a.reward_share = Zero /\ a.stake_share = <<32, 64>>

\* This step is an iteration of the inner loop of aggregate_over_weeks that
\* got its rows: hist' holds them.
BatchTaken == script = "weeks" /\ epc = "batch" /\ start_i' > start_i

TotalOf(d, e) == IF e \in DOMAIN d THEN d[e] ELSE 0

\* The rows of h for a validator of entity e.
RowsOfEntity(df, h, e) ==
    { i \in 1..Len(h) : EntityOf(df, h[i].validator_index) = e }

\* The balance recorded for the validator of row i of h when that row is
\* read: the one of the latest row before it in h for the validator, else
\* the one prev holds for it, if any.
BalanceBefore(prev, h, i) ==
    LET vidx == h[i].validator_index
        earlier == { j \in 1..(i - 1) : h[j].validator_index = vidx }
    IN  IF earlier # {}
        THEN Some(h[CHOOSE j \in earlier : \A k \in earlier : k <= j].balance_gwei)
        ELSE IF vidx \in DOMAIN prev THEN Some(prev[vidx]) ELSE None

\* The flow of row i of h.
FlowOf(prev, h, i) ==
    LET before == BalanceBefore(prev, h, i) IN
    IF IsNone(before) THEN 0 ELSE Max(h[i].balance_gwei - Val(before), 0)

\* C17: the rows of a batch add to the issuance of every entity, for each
\* row of one of its validators, 0 when no balance was recorded for the
\* validator and else the rise of its balance, or 0 when it fell: nothing
\* for a first balance of 500, 200 for 700 after 500, nothing for 600 after
\* 700.
C17_FlowIsPositiveDelta ==
    [][ BatchTaken =>
          /\ \A e \in { validators_df[k].entity_id : k \in 1..Len(validators_df) } :
                TotalOf(issuance_entity', e) - TotalOf(issuance_entity, e) =
                    SumValues([i \in RowsOfEntity(validators_df, hist', e) |->
                                 FlowOf(prev_balance, hist', i)])
          /\ Len(hist') = 1 =>
                LET v == hist'[1].validator_index
                    e == EntityOf(validators_df, v)
                    added == TotalOf(issuance_entity', e) - TotalOf(issuance_entity, e)
                    bal == hist'[1].balance_gwei
                IN  /\ (v \notin DOMAIN prev_balance /\ bal = 500) => added = 0
                    /\ (v \in DOMAIN prev_balance /\ prev_balance[v] = 500 /\ bal = 700)
                           => added = 200
                    /\ (v \in DOMAIN prev_balance /\ prev_balance[v] = 700 /\ bal = 600)
                           => added = 0
      ]_vars

\* The only validator's balance was 500, then 700, then 600, and the rows
\* of its entity show the issuance 0, 200 and 0.
C17_Witness ==
    /\ script = "weeks"
    /\ Len(validators_df) = 1
    /\ 0 \in DOMAIN prev_balance /\ prev_balance[0] = 600
    /\ \E r \in WeekRows(1) : r.issuance_gwei_pos = 0 /\ r.effectivebalance_gwei = 32
    /\ \E r \in WeekRows(2) : r.issuance_gwei_pos = 200
    /\ \E r \in WeekRows(3) : r.issuance_gwei_pos = 0 /\ r.effectivebalance_gwei = 0

\* The sample_weight the roster carries for validator vidx.
WeightOf(df, vidx) == df[IdxToEntity(df)[vidx]].sample_weight

\* C18: the rows of a batch add to the stake and to the issuance of every
\* entity what each of its validators contributes times the validator's
\* sample_weight.
C18_ContributionsAreWeighted ==
    [][ BatchTaken =>
          \A e \in { validators_df[k].entity_id : k \in 1..Len(validators_df) } :
              LET of_e == RowsOfEntity(validators_df, hist', e) IN
              /\ TotalOf(stake_entity', e) - TotalOf(stake_entity, e) =
                     SumValues([i \in of_e |->
                         WeightOf(validators_df, hist'[i].validator_index)
                           * hist'[i].effectivebalance_gwei])
              /\ TotalOf(issuance_entity', e) - TotalOf(issuance_entity, e) =
                     SumValues([i \in of_e |->
                         WeightOf(validators_df, hist'[i].validator_index)
                           * FlowOf(prev_balance, hist', i)])
      ]_vars

\* C19: no failed fetch of a batch ends aggregate_over_weeks: the call goes
\* on to the rows of the week and to the next week, with the rows of the
\* earlier weeks kept.
C19_FetchFailureDoesNotEndTheRun ==
    script = "weeks" => epc # "raised"

---------------------------------------------------------------------------
(* Properties of the handling of incomplete records *)

\* A non-empty page arrived in a paginator of src/bittensor.py.
PageOfRecordsArrived ==
    /\ script = "bittensor" /\ pc \in {"fms", "fdp"}
    /\ Arrived
    /\ last_resp'.kind = "http" /\ last_resp'.status = 200
    /\ last_resp'.n_items > 0

\* C20: whatever records of a page lack their number, every record of the
\* page that has it is taken up with the entries accumulated before, and
\* the pagination goes on when the response announces a next page.
C20_IncompleteRecordSkippedAlone ==
    [][ PageOfRecordsArrived =>
          /\ last_resp'.next_page = "set" => GoesOn
          /\ pc = "fms" =>
                DOMAIN miner_dict \cup
                  { m.uid : m \in { x \in SeqRange(PageOf(source, page)) :
                                      Present(x.block_number) } }
                    \subseteq DOMAIN miner_dict'
          /\ pc = "fdp" =>
                DOMAIN price_map \cup
                  { m.netuid : m \in { x \in SeqRange(PageOf(price_source, page)) :
                                         Present(x.price) } }
                    \subseteq DOMAIN price_map'
      ]_vars

---------------------------------------------------------------------------
(* Properties of the order of the windows *)

\* C21: the window goes up by one and only when every request of the
\* window has been answered: in aggregate_over_weeks after the last batch
\* of the week, in main of src/bittensor.py after both paginators have
\* returned; requests are made for the current window only; and an entry of
\* prev_balance is one it held before the batch or a balance of a row of
\* the batch just answered.
C21_WindowsInOrder ==
    [][ /\ script = "weeks" =>
            /\ ts_week' \in {ts_week, ts_week + 1}
            /\ ts_week' # ts_week =>
                   epc = "batch" /\ start_i >= Len(validators_df)
            /\ BatchTaken => ts_week' = ts_week
            /\ \A v \in DOMAIN prev_balance' :
                   \/ v \in DOMAIN prev_balance /\ prev_balance'[v] = prev_balance[v]
                   \/ /\ BatchTaken
                      /\ \E i \in 1..Len(hist') :
                           /\ hist'[i].validator_index = v
                           /\ hist'[i].balance_gwei = prev_balance'[v]
        /\ script = "bittensor" =>
            /\ current_date' \in {current_date, current_date + 1}
            /\ current_date' # current_date => pc = "rows"
            /\ Arrived => pc \in {"fdp", "fms"} /\ current_date' = current_date
      ]_vars

\* aggregate_over_weeks has emitted the rows of the first week and taken a
\* batch of the second, whose balance of 700 follows the 500 of the first.
C21_Witness ==
    /\ script = "weeks"
    /\ ts_week = 2 /\ epc = "batch" /\ start_i > 0
    /\ WeekRows(1) # {}
    /\ \E r \in WeekRows(1) : r.issuance_gwei_pos = 0
    /\ 0 \in DOMAIN prev_balance /\ prev_balance[0] = 700
    /\ \E e \in DOMAIN issuance_entity : issuance_entity[e] = 200

---------------------------------------------------------------------------
(* Properties of gini and of the Nakamoto coefficient *)

\* The sum of the k largest values of v.
TopSum(v, k) == SumValues([j \in 1..k |-> Reversed(SortedInts(v))[j]])

\* The share c / t is above 0.33.
AboveThreshold(c, t) == c * ThresholdDen > ThresholdNum * t

NonNegative(v) == \A i \in 1..Len(v) : v[i] >= 0

\* C22: for a week of non-negative counts with a positive total,
\* nakamoto_33 is the smallest k for which the share of the k largest
\* counts is above 0.33; a share of exactly 0.33 is not enough.
C22_NakamotoIsSmallestAbove ==
    script = "gini" =>
        \A w \in 1..Len(gini_results) :
            LET v == grouped[w]
                t == SumValues(v)
                k == gini_results[w].nakamoto_33
            IN  (NonNegative(v) /\ t > 0) =>
                    /\ k \in 1..Len(v)
                    /\ AboveThreshold(TopSum(v, k), t)
                    /\ \A j \in 1..(k - 1) : ~AboveThreshold(TopSum(v, j), t)

\* C23: two weeks with the same counts in different orders get the same
\* gini and the same nakamoto_33, and no step changes the counts the
\* functions were given.
C23_OrderIndependent ==
    [][ script = "gini" =>
          /\ grouped' = grouped
          /\ Len(gini_results') = 2 =>
                /\ gini_results'[1].gini = gini_results'[2].gini
                /\ gini_results'[1].nakamoto_33 = gini_results'[2].nakamoto_33
      ]_vars

\* Both weeks are through, their counts are in different orders, and their
\* gini is not 0.
C23_Witness ==
    /\ script = "gini"
    /\ Len(gini_results) = 2
    /\ grouped[1] = <<1, 33, 33>> /\ grouped[2] = <<33, 33, 1>>
    /\ gini_results[1].gini.num.mag # << >>
    /\ gini_results[2].nakamoto_33 = 1

AllEqual(v) == \A i \in 1..Len(v) : v[i] = v[1]

Positive(x) == ~x.neg /\ x.mag # << >>

\* C24 as stated: the gini of a week of equal non-negative counts is 0,
\* with a numerator of 0 over a positive denominator.
C24_EqualValuesGiveZero ==
    script = "gini" =>
        \A w \in 1..Len(gini_results) :
            (AllEqual(grouped[w]) /\ NonNegative(grouped[w])) =>
                /\ Positive(gini_results[w].gini.den)
                /\ gini_results[w].gini.num.mag = << >>

\* C24 as the code has it: the gini of a week of equal non-negative counts
\* has a positive denominator and is 0 up to the rounding of float64: its
\* size is below 2^-(Precision - 1), the distance between 1 and the next
\* double.
C24_EqualValuesGiveZeroRounded ==
    script = "gini" =>
        \A w \in 1..Len(gini_results) :
            (AllEqual(grouped[w]) /\ NonNegative(grouped[w])) =>
                LET g == gini_results[w].gini IN
                /\ Positive(g.den)
                /\ \/ g.num.mag = << >>
                   \/ NatLess(Zeros(Precision - 1) \o g.num.mag, g.den.mag)

\* The gini of five counts of 1 has been computed, and its numerator is
\* 2^-50, not 0.
C24_Witness ==
    /\ script = "gini"
    /\ gini_results # << >>
    /\ grouped[1] = <<1, 1, 1, 1, 1>>
    /\ gini_results[1].gini.num = Double(FALSE, Zeros(Scale - 50) \o <<1>>)

---------------------------------------------------------------------------
(* Properties of the state aggregate_over_weeks keeps *)

\* A week begins with this step.
WeekBegins == script = "weeks" /\ epc = "week" /\ epc' = "batch"

\* The rows of a week are emitted with this step.
WeekEnds == script = "weeks" /\ epc = "batch" /\ epc' = "week"

\* C25: a week begins with empty totals and with its first batch, whatever
\* the week before left; the rows emitted are never changed or removed;
\* the rows a week adds are those of its own totals; and nothing but
\* prev_balance passes from a week to the next.
C25_RowsFreshPerPeriod ==
    [][ script = "weeks" =>
          /\ out_rows \subseteq out_rows'
          /\ WeekBegins =>
                /\ issuance_entity' = EmptyDict /\ stake_entity' = EmptyDict
                /\ start_i' = 0
                /\ prev_balance' = prev_balance /\ out_rows' = out_rows
          /\ WeekEnds =>
                /\ prev_balance' = prev_balance
                /\ \A r \in out_rows' \ out_rows :
                      /\ r.week_chain = ts_week
                      /\ r.entity_id \in DOMAIN issuance_entity
                      /\ r.issuance_gwei_pos = issuance_entity[r.entity_id]
                      /\ r.effectivebalance_gwei = TotalOf(stake_entity, r.entity_id)
                /\ \A e \in DOMAIN issuance_entity :
                      \E r \in out_rows' : r.week_chain = ts_week /\ r.entity_id = e
          /\ ~WeekEnds => out_rows' = out_rows
      ]_vars

\* The second week has begun with empty totals after a first week that
\* emitted a row with stake and left balances in prev_balance.
C25_Witness ==
    /\ script = "weeks"
    /\ ts_week = 2 /\ epc = "batch" /\ start_i = 0
    /\ issuance_entity = EmptyDict /\ stake_entity = EmptyDict
    /\ \E r \in WeekRows(1) : r.effectivebalance_gwei = 64
    /\ DOMAIN prev_balance = {0, 1}

\* The rows of h for the validator vidx.
RowsOfValidator(h, vidx) == { i \in 1..Len(h) : h[i].validator_index = vidx }

\* C26: after a batch prev_balance holds, for a validator with rows in the
\* batch, the balance of the last of them, and for every other validator
\* what it held before, an entry or none; no other step changes it.  A
\* week without a row for a validator leaves its entry for the delta of
\* the next row.
C26_PrevBalanceIsLastObserved ==
    [][ script = "weeks" =>
          IF BatchTaken
          THEN /\ \A i \in 1..Len(hist') :
                     RowsOfValidator(hist', hist'[i].validator_index) \cap (i + 1)..Len(hist') = {}
                         => /\ hist'[i].validator_index \in DOMAIN prev_balance'
                            /\ prev_balance'[hist'[i].validator_index] = hist'[i].balance_gwei
               /\ \A v \in (DOMAIN prev_balance \cup DOMAIN prev_balance') :
                     RowsOfValidator(hist', v) = {}
                         => /\ v \in DOMAIN prev_balance /\ v \in DOMAIN prev_balance'
                            /\ prev_balance'[v] = prev_balance[v]
          ELSE prev_balance' = prev_balance
      ]_vars

\* The only validator had a balance of 500 in the first week, no row in the
\* second, and 700 in the third: the second week has no row, and the third
\* has an issuance of 200.
C26_Witness ==
    /\ script = "weeks"
    /\ Len(validators_df) = 1
    /\ \E r \in WeekRows(1) : r.issuance_gwei_pos = 0
    /\ WeekRows(2) = {}
    /\ \E r \in WeekRows(3) : r.issuance_gwei_pos = 200
    /\ prev_balance = (0 :> 700)

\* The validators of entity e that were read.
ReadOfEntity(e) == { v \in DOMAIN flow_log : EntityOf(validators_df, v) = e }

\* The issuance of entity e in the rows emitted and in the week under way.
IssuanceSoFar(e) ==
    SumValues([r \in { x \in out_rows : x.entity_id = e } |-> r.issuance_gwei_pos])
    + (IF epc \in {"batch", "raised"} THEN TotalOf(issuance_entity, e) ELSE 0)

\* C27: the delta_pos of a validator add up to no less than its last
\* balance minus its first and to no less than 0, and to just the
\* difference of the two exactly when none of its balances was lower than the
\* one before; and they are what the issuance of its entity is made of.
C27_FlowSumBoundsBalanceChange ==
    script = "weeks" =>
        /\ DOMAIN flow_log = DOMAIN prev_balance
        /\ \A v \in DOMAIN flow_log :
              LET change == prev_balance[v] - flow_log[v].first IN
              /\ flow_log[v].delta_pos >= change
              /\ flow_log[v].delta_pos >= 0
              /\ flow_log[v].delta_pos = change <=> ~flow_log[v].fell
        /\ \A e \in { validators_df[k].entity_id : k \in 1..Len(validators_df) } :
              IssuanceSoFar(e) =
                  SumValues([v \in ReadOfEntity(e) |-> flow_log[v].delta_pos])

\* A validator went from 500 to 700 and then to 600: its flows add up to
\* 200, its balance rose by 100.
C27_Witness ==
    /\ script = "weeks"
    /\ \E v \in DOMAIN flow_log :
          /\ flow_log[v] = [first |-> 500, delta_pos |-> 200, fell |-> TRUE]
          /\ prev_balance[v] = 600
    /\ epc = "returned"

\* C28: the rows of a batch add to the stake of every entity the effective
\* balance of each of its validators in the batch once, that of the
\* validator's last row, however many rows the batch has for it; a validator
\* is in one batch of a week.
C28_StakeCountsSubjectOnce ==
    [][ BatchTaken =>
          \A e \in { validators_df[k].entity_id : k \in 1..Len(validators_df) } :
              TotalOf(stake_entity', e) - TotalOf(stake_entity, e) =
                  SumValues([i \in { j \in RowsOfEntity(validators_df, hist', e) :
                                       RowsOfValidator(hist', hist'[j].validator_index)
                                         \cap (j + 1)..Len(hist') = {} } |->
                                hist'[i].effectivebalance_gwei])
      ]_vars

---------------------------------------------------------------------------
(* Properties of the termination of the paginators *)

\* C29: a call of fetch_miners_snapshot or fetch_snapshot_before returns
\* whatever the source answers.  For that no answer may leave the call where
\* it was, on the same page with the same records and still in its loop: a
\* source that gives that answer to every request holds the call there for
\* ever.
C29_AnswerMovesPaginatorOn ==
    [][ /\ (script = "bittensor" /\ pc = "fms" /\ Arrived) =>
               <<pc, page, miner_dict>>' # <<pc, page, miner_dict>>
        /\ (script = "taostats" /\ cpc[1] = "waiting" /\ Arrived) =>
               <<fsb, page, rows_all>>' # <<fsb, page, rows_all>>
      ]_vars

=============================================================================
